---- MODULE Spec2Model ----
(***************************************************************************)
(* Model of the racquet scraper: main -> browser.NewChrome ->               *)
(* Scraper.GetOptions -> setupPage -> processOptions -> getRacquetInfo,     *)
(* with every browser interaction going through runWithTimeout (or, for    *)
(* the two navigation steps, through chromedp.Run under a 30s deadline).   *)
(* The browser and the page are the environment: each chromedp.Run has an  *)
(* outcome drawn from RunOutcomes, and the page is a small DOM chosen in   *)
(* Init.                                                                    *)
(***************************************************************************)
EXTENDS Integers, Sequences, FiniteSets, TLC

(* ------------------------------ bounds --------------------------------- *)
\* number of <li> entries of the dropdown
MaxEntries == 2
\* number of .rac_name elements a search shows
MaxItems == 2

(* --------------------------- text helpers ------------------------------ *)
\* the characters String.prototype.trim strips, the ECMAScript WhiteSpace and
\* LineTerminator code points: TAB, LF, CR, FF, VT, SP and NBSP. (The others,
\* U+1680, U+2000..U+200A, U+2028, U+2029, U+202F, U+205F, U+3000 and U+FEFF,
\* lie beyond U+00FF, and a string of this module cannot hold them.)
WhiteSpace == {" ", "\t", "\n", "\r", "\f", "", " "}

\* String.prototype.trim
RECURSIVE TrimLeft(_)
TrimLeft(s) ==
  IF Len(s) > 0 /\ SubSeq(s, 1, 1) \in WhiteSpace
  THEN TrimLeft(SubSeq(s, 2, Len(s))) ELSE s

RECURSIVE TrimRight(_)
TrimRight(s) ==
  IF Len(s) > 0 /\ SubSeq(s, Len(s), Len(s)) \in WhiteSpace
  THEN TrimRight(SubSeq(s, 1, Len(s) - 1)) ELSE s

Trim(s) == TrimRight(TrimLeft(s))

\* String.prototype.startsWith
StartsWith(s, p) == Len(p) <= Len(s) /\ SubSeq(s, 1, Len(p)) = p

\* XPath contains(s, p), String.prototype.includes: p occurs in s
Contains(s, p) ==
  \E k \in 1..(Len(s) - Len(p) + 1) : SubSeq(s, k, k + Len(p) - 1) = p

\* .map(el => el.textContent.trim())
MapTrim(seq) == [k \in 1..Len(seq) |-> Trim(seq[k])]

\* .filter(text => text !== '' && text !== 'Select')
RECURSIVE FilterOptions(_)
FilterOptions(seq) ==
  IF seq = <<>> THEN <<>>
  ELSE (IF Head(seq) # "" /\ Head(seq) # "Select" THEN <<Head(seq)>> ELSE <<>>)
       \o FilterOptions(Tail(seq))

Min(a, b) == IF a <= b THEN a ELSE b

(* ------------------------------ errors --------------------------------- *)
\* context errors: s.ctx.Err()
CtxNil == "nil"
DeadlineExceeded == "context deadline exceeded"
Canceled == "context canceled"

\* a Go error: its message prefix and the sentinel it wraps with %w (or is)
NoErr == [msg |-> "", wraps |-> CtxNil]
Err(m, w) == [msg |-> m, wraps |-> w]
\* errors.Is(err, target)
ErrorsIs(e, target) == e # NoErr /\ e.wraps = target

(* ------------------------------ the page ------------------------------- *)
\* the child nodes of an element: a text node, or a child element given by
\* its own textContent
TextNode(s) == [kind |-> "text", text |-> s]
Element(s) == [kind |-> "element", text |-> s]

\* el.textContent: the texts of the child nodes, in order
RECURSIVE TextContent(_)
TextContent(nodes) ==
  IF nodes = << >> THEN "" ELSE Head(nodes).text \o TextContent(Tail(nodes))

\* .map(el => el.textContent) over a list of elements
TextContents(els) == [k \in 1..Len(els) |-> TextContent(els[k])]

\* the string XPath makes of text() in contains(text(), p): the node-set of
\* the text-node children is converted to the string value of its first node,
\* the empty string when there is none
RECURSIVE XPathText(_)
XPathText(nodes) ==
  IF nodes = << >> THEN ""
  ELSE IF Head(nodes).kind = "text" THEN Head(nodes).text
  ELSE XPathText(Tail(nodes))

\* the <li> entries a dropdown may hold, each by its child nodes: the
\* placeholder, three plain options (one padded, one that contains another),
\* a blank entry, an option inside a <b>, and an option with a double quote
EntryLis == {<< TextNode("Select") >>, << TextNode(" A ") >>, << TextNode("AB") >>,
             << TextNode("C") >>, << TextNode("\n\t ") >>, << Element("A") >>,
             << TextNode("Q\"") >>}

\* a <tr> without a <td>
NoTd == "<no td>"

\* the spec table under one .rac_name element
PanelRows(name) ==
  CASE Trim(name) = "X" -> << [text |-> "\n\tHead Size:\n\t100\n", td |-> "\n\t100\n"] >>
    [] Trim(name) = "Y" -> << [text |-> "Length: 27 in", td |-> "27 in"],
                              [text |-> "Head Size:", td |-> ""],
                              [text |-> " Length: 99", td |-> "99"] >>
    [] Trim(name) = "${1}" -> << [text |-> "Head Size: 5", td |-> "5"] >>
    [] Trim(name) = "1" -> << [text |-> "Head Size: 7", td |-> "7"] >>
    [] OTHER -> << [text |-> "Balance:", td |-> NoTd] >>

\* textContent of the .rac_info .rac_name elements a search on an entry shows
\* (entry: the textContent of the entry clicked)
ItemsOf(entry) ==
  LET all == CASE Trim(entry) = "A" -> << " X ", "Y", "X" >>
               [] Trim(entry) = "AB" -> << "Z", "Y" >>
               [] Trim(entry) = "C" -> << "${1}", "1", "${1+1}" >>
               [] OTHER -> << >>
  IN SubSeq(all, 1, Min(MaxItems, Len(all)))

\* the .rac_name elements with their tables, as the search renders them
DivsOf(entry) ==
  [k \in 1..Len(ItemsOf(entry)) |->
     [text |-> ItemsOf(entry)[k], rows |-> PanelRows(ItemsOf(entry)[k])]]

\* the result list the search shows after a click on each entry
ResultsOf == [li \in EntryLis |-> DivsOf(TextContent(li))]

(* ------------------------- the in-page scripts -------------------------- *)
\* fmt.Sprintf(`//li[contains(text(), "%s")]`, option) puts the option between
\* the double quotes as it is. An option without a double quote is the string
\* literal of the expression (XPath 1.0 has no escape in a literal).
QuotedInXPath(option) == ~Contains(option, "\"")

\* the options of the model's pages that hold a double quote and leave an
\* expression that does not parse: //li[contains(text(), "Q"")] ends in an
\* unterminated literal
BrokenXPath == {"Q\""}

\* the first entry the search for //li[contains(text(), "option")] finds,
\* 0 if it finds none; for the options that are the literal of the
\* expression and for the broken expressions of the model's pages
FirstContaining(lis, option) ==
  CASE QuotedInXPath(option) ->
         IF \E k \in 1..Len(lis) : Contains(XPathText(lis[k]), option)
         THEN CHOOSE k \in 1..Len(lis) :
                /\ Contains(XPathText(lis[k]), option)
                /\ \A m \in 1..(k - 1) : ~Contains(XPathText(lis[m]), option)
         ELSE 0
    [] option \in BrokenXPath -> 0

\* the keys of the object the script serializes, and the struct's fields
JsKeys == << "name", "error", "headSize", "length", "balance", "swingWeight",
             "beamWidth", "tipOrShaft", "composition", "powerLevel", "stiffness",
             "stringPattern", "mainSkip", "stringTension" >>
GoFields == << "Name", "Error", "HeadSize", "Length", "Balance", "SwingWeight",
               "BeamWidth", "TipOrShaft", "Composition", "PowerLevel", "Stiffness",
               "StringPattern", "MainSkip", "StringTension" >>
\* the label getSpec is called with for each serialized key
LabelOf(key) ==
  CASE key = "headSize" -> "Head Size:"
    [] key = "length" -> "Length:"
    [] key = "balance" -> "Balance:"
    [] key = "swingWeight" -> "Swing Weight:"
    [] key = "beamWidth" -> "Beam Width:"
    [] key = "tipOrShaft" -> "Tip/Shaft:"
    [] key = "composition" -> "Composition:"
    [] key = "powerLevel" -> "Power Level:"
    [] key = "stiffness" -> "Stiffness:"
    [] key = "stringPattern" -> "String Pattern:"
    [] key = "mainSkip" -> "Main Skip:"
    [] key = "stringTension" -> "String Tension:"
    [] OTHER -> ""
SpecKeys == {JsKeys[k] : k \in 3..Len(JsKeys)}

\* The script of getRacquetInfo puts the harvested name between backticks, so
\* the browser reads it as a template literal. A name without a backslash,
\* without "${" and without a line break (a backtick cannot be written in a
\* string of this module, so no name here holds one) is a literal without
\* escape sequence or substitution in a script whose comment stays on its
\* line: it evaluates to the name itself.
PlainTemplate(name) ==
  /\ ~Contains(name, "\\")
  /\ ~Contains(name, "${")
  /\ ~Contains(name, "\n")
  /\ ~Contains(name, "\r")

\* what the browser evaluates the substitutions among the names of the
\* model's pages to: String(1) and String(1+1)
Substituted == ("${1}" :> "1") @@ ("${1+1}" :> "2")

\* the value of the template literal made of a harvested name, for the plain
\* names and for the substitutions of the model's pages
TemplateLiteral(name) ==
  IF PlainTemplate(name) THEN name ELSE Substituted[name]

\* the last .rac_name element whose trimmed text equals name, 0 if none
FoundDiv(divs, name) ==
  IF \E k \in 1..Len(divs) : Trim(divs[k].text) = name
  THEN CHOOSE k \in 1..Len(divs) :
         /\ Trim(divs[k].text) = name
         /\ \A m \in (k + 1)..Len(divs) : Trim(divs[m].text) # name
  ELSE 0

\* the first row whose trimmed text starts with the label, 0 if none
SpecRow(rows, label) ==
  IF \E k \in 1..Len(rows) : StartsWith(Trim(rows[k].text), label)
  THEN CHOOSE k \in 1..Len(rows) :
         /\ StartsWith(Trim(rows[k].text), label)
         /\ \A m \in 1..(k - 1) : ~StartsWith(Trim(rows[m].text), label)
  ELSE 0

\* getSpec(label) throws when the matching row has no <td>
GetSpecThrows(rows, label) ==
  LET row == SpecRow(rows, label) IN row # 0 /\ rows[row].td = NoTd

\* getSpec(label): the trimmed text of the matching row's <td>, "" without one
getSpec(rows, label) ==
  LET row == SpecRow(rows, label) IN IF row = 0 THEN "" ELSE Trim(rows[row].td)

\* JSON.stringify of the script's object; a page whose Object.prototype.toJSON
\* is patched serializes every object as that function's result
JSONStringify(members, toJSON) ==
  IF toJSON THEN [kind |-> "number"] ELSE [kind |-> "object", members |-> members]

\* the outcome of the script of getRacquetInfo built for one harvested name:
\* an exception (getSpec throws), a plain object (no match) or a JSON
\* string. The element looked for and the name reported are
\* what the template literal made of the harvested name evaluates to.
RacquetScript(divs, harvested, toJSON) ==
  LET name == TemplateLiteral(harvested) IN
  IF FoundDiv(divs, name) = 0
  THEN [kind |-> "object",
        members |-> [k \in {"name", "error"} |->
                       IF k = "name" THEN name ELSE "Couldn't find racDiv"]]
  ELSE LET rows == divs[FoundDiv(divs, name)].rows IN
       IF \E k \in SpecKeys : GetSpecThrows(rows, LabelOf(k))
       THEN [kind |-> "exception"]
       ELSE [kind |-> "string",
             json |-> JSONStringify(
                        [name |-> name,
                         error |-> "",
                         headSize |-> getSpec(rows, "Head Size:"),
                         length |-> getSpec(rows, "Length:"),
                         balance |-> getSpec(rows, "Balance:"),
                         swingWeight |-> getSpec(rows, "Swing Weight:"),
                         beamWidth |-> getSpec(rows, "Beam Width:"),
                         tipOrShaft |-> getSpec(rows, "Tip/Shaft:"),
                         composition |-> getSpec(rows, "Composition:"),
                         powerLevel |-> getSpec(rows, "Power Level:"),
                         stiffness |-> getSpec(rows, "Stiffness:"),
                         stringPattern |-> getSpec(rows, "String Pattern:"),
                         mainSkip |-> getSpec(rows, "Main Skip:"),
                         stringTension |-> getSpec(rows, "String Tension:")],
                        toJSON)]

\* the result lists the model's page can show, the names read from them, and
\* for each of them the script's value, whether an element's trimmed text is
\* the name, and the rows of that element's panel
Pages == {<< >>} \cup {ResultsOf[li] : li \in EntryLis}
PageNames == UNION {{Trim(divs[k].text) : k \in 1..Len(divs)} : divs \in Pages}
ScriptValues ==
  {[name |-> name, patched |-> p, divs |-> divs,
    value |-> RacquetScript(divs, name, p),
    found |-> FoundDiv(divs, name) # 0,
    rows |-> IF FoundDiv(divs, name) = 0 THEN << >>
             ELSE divs[FoundDiv(divs, name)].rows] :
     divs \in Pages, name \in PageNames, p \in BOOLEAN}
ScriptValue(divs, name, toJSON) ==
  CHOOSE e \in ScriptValues :
    e.name = name /\ e.patched = toJSON /\ e.divs = divs

\* strings.EqualFold of a struct field name and a JSON key: the two are
\* equal after case folding
Folded ==
  [Name |-> "name", Error |-> "error", HeadSize |-> "headsize",
   Length |-> "length", Balance |-> "balance", SwingWeight |-> "swingweight",
   BeamWidth |-> "beamwidth", TipOrShaft |-> "tiporshaft",
   Composition |-> "composition", PowerLevel |-> "powerlevel",
   Stiffness |-> "stiffness", StringPattern |-> "stringpattern",
   MainSkip |-> "mainskip", StringTension |-> "stringtension",
   name |-> "name", error |-> "error", headSize |-> "headsize",
   length |-> "length", balance |-> "balance", swingWeight |-> "swingweight",
   beamWidth |-> "beamwidth", tipOrShaft |-> "tiporshaft",
   composition |-> "composition", powerLevel |-> "powerlevel",
   stiffness |-> "stiffness", stringPattern |-> "stringpattern",
   mainSkip |-> "mainskip", stringTension |-> "stringtension"]
EqualFold(field, key) == Folded[field] = Folded[key]

EmptySpecs == [f \in {GoFields[n] : n \in 1..Len(GoFields)} |-> ""]

\* stringifySpecs when the evaluation stored nothing in it
EmptyString == [kind |-> "empty"]

\* json.Unmarshal([]byte(stringifySpecs), &racquetInfo): the error, and
\* racquetInfo afterwards (the zero value when the text is no JSON object)
UnmarshalErr(json) ==
  IF json.kind = "object" THEN NoErr
  ELSE IF json.kind = "empty" THEN Err("unexpected end of JSON input", CtxNil)
  ELSE Err("json: cannot unmarshal number into Go value of type scraper.RacquetSpecs", CtxNil)
Unmarshal(json) ==
  IF json.kind # "object" THEN EmptySpecs
  ELSE [f \in DOMAIN EmptySpecs |->
          IF \E k \in DOMAIN json.members : EqualFold(f, k)
          THEN json.members[CHOOSE k \in DOMAIN json.members : EqualFold(f, k)]
          ELSE ""]

(* --------------------------- the executor ------------------------------ *)
\* what one chromedp.Run can meet: it completes, its own (child) deadline
\* fires, the session's deadline fires, the session is cancelled (the browser
\* went away), or the browser reports an error
RunOutcomes == {"ok", "child_deadline", "parent_deadline", "parent_cancel", "browser_error"}

\* the outcomes a call can meet under a session context: with the session
\* already over, nothing is left to happen to the call
Feasible(ctx, out) == out \in RunOutcomes /\ (ctx # CtxNil => out = "ok")

\* the session context after a Run with that outcome
CtxAfter(ctx, out) ==
  IF ctx # CtxNil THEN ctx
  ELSE IF out = "parent_deadline" THEN DeadlineExceeded
  ELSE IF out = "parent_cancel" THEN Canceled
  ELSE ctx

\* chromedp.Run(childCtx, actions...): the error it returns. pageErr is the
\* error the actions themselves end with when nothing interrupts them.
chromedpRun(ctx, out, pageErr) ==
  IF ctx # CtxNil THEN Err(ctx, ctx)
  ELSE CASE out = "ok" -> pageErr
         [] out = "child_deadline" -> Err(DeadlineExceeded, DeadlineExceeded)
         [] out = "parent_deadline" -> Err(DeadlineExceeded, DeadlineExceeded)
         [] out = "parent_cancel" -> Err(Canceled, Canceled)
         [] OTHER -> Err("browser error", CtxNil)

\* the error runWithTimeout makes of the error of chromedp.Run
ClassifyRunErr(err) ==
  IF err = NoErr THEN NoErr
  ELSE IF ErrorsIs(err, Canceled)
       THEN Err("action context canceled during execution", CtxNil)
  ELSE IF ErrorsIs(err, DeadlineExceeded)
       THEN Err("action timed out", CtxNil)
  ELSE err

\* runWithTimeout without the check of the session context
runWithTimeoutNoCheck(ctx, out, pageErr) ==
  [err |-> ClassifyRunErr(chromedpRun(ctx, out, pageErr)),
   ctx |-> CtxAfter(ctx, out),
   derived |-> TRUE, ran |-> TRUE, childLive |-> FALSE]

\* runWithTimeout without `defer cancel()`
runWithTimeoutNoDefer(ctx, out, pageErr) ==
  IF ctx # CtxNil
  THEN [err |-> Err("parent context canceled", ctx), ctx |-> ctx,
        derived |-> FALSE, ran |-> FALSE, childLive |-> FALSE]
  ELSE [err |-> ClassifyRunErr(chromedpRun(ctx, out, pageErr)),
        ctx |-> CtxAfter(ctx, out),
        derived |-> TRUE, ran |-> TRUE, childLive |-> TRUE]

\* runWithTimeout that fails fast on an expired session only, not on a
\* cancelled one
runWithTimeoutDeadlineOnly(ctx, out, pageErr) ==
  IF ctx = DeadlineExceeded
  THEN [err |-> Err("parent context canceled", ctx), ctx |-> ctx,
        derived |-> FALSE, ran |-> FALSE, childLive |-> FALSE]
  ELSE [err |-> ClassifyRunErr(chromedpRun(ctx, out, pageErr)),
        ctx |-> CtxAfter(ctx, out),
        derived |-> TRUE, ran |-> TRUE, childLive |-> FALSE]

\* Scraper.runWithTimeout: the error returned, the session context afterwards,
\* whether a child deadline was derived, whether the actions were handed to
\* chromedp.Run, and whether the child deadline is still live on return
runWithTimeout(ctx, out, pageErr) ==
  IF ctx # CtxNil
  THEN [err |-> Err("parent context canceled", ctx), ctx |-> ctx,
        derived |-> FALSE, ran |-> FALSE, childLive |-> FALSE]
  ELSE [err |-> ClassifyRunErr(chromedpRun(ctx, out, pageErr)),
        ctx |-> CtxAfter(ctx, out),
        derived |-> TRUE, ran |-> TRUE, childLive |-> FALSE]

\* the two navigation steps of setupPage call chromedp.Run themselves
runDirect(ctx, out, msg) ==
  LET e == chromedpRun(ctx, out, NoErr) IN
  [err |-> IF e = NoErr THEN NoErr ELSE Err(msg, e.wraps), ctx |-> CtxAfter(ctx, out),
   derived |-> TRUE, ran |-> TRUE, childLive |-> TRUE]

\* fmt.Errorf(msg + ": %w", err)
Wrap(msg, err) == Err(msg, err.wraps)

(* ------------------------------- state --------------------------------- *)
VARIABLES
  pc,          \* where the program is
  ctxErr,      \* s.ctx.Err() of the session context NewChrome returned
  tornDown,    \* the combined cancel function of NewChrome has run
  exitCode,    \* -1 while running, then the process's exit status
  liveCtx,     \* the derived contexts whose deadline has not been revoked
  entries,     \* page: the .optionslist li elements, each by its child nodes
  patched,     \* page: Object.prototype.toJSON is patched
  nameDivs,    \* page: the .rac_name elements now in the DOM
  clicked,     \* page: the entry the last option click hit (0: none)
  options,     \* GetOptions: options
  i,           \* processOptions: index of the loop
  racNames,    \* processOptions: racNames
  j,           \* getRacquetInfo: index of the loop
  specs,       \* processOptions: specs declared at the top of the loop body
  specsInner,  \* processOptions: specs declared by := in the if block
  infoSpecs,   \* getRacquetInfo: specs
  infoErr,     \* processOptions: err of `specs, err := s.getRacquetInfo(...)`
  results,     \* processOptions: results
  retSpecs,    \* GetOptions: the records returned
  retErr,      \* GetOptions: the error returned
  lastCall,    \* observation: the last executor call and what it returned
  calls,       \* observation: executor calls made, per unit of work
  ran,         \* observation: calls whose actions were handed to chromedp.Run
  optLog,      \* observation: one entry per option visited
  extracted,   \* observation: concatenation of what getRacquetInfo returned
  lastItem,    \* observation: the last identifier getRacquetInfo worked on
  openedSince  \* observation: a .drop_arrow click was issued since the last
               \* option click

vars == << pc, ctxErr, tornDown, exitCode, entries, patched, nameDivs, clicked,
           options, i, racNames, j, specs, specsInner, infoSpecs, results,
           retSpecs, retErr, lastCall, calls, ran, optLog, extracted, lastItem,
           infoErr, liveCtx, openedSince >>

pageVars == << entries, patched, nameDivs, clicked >>
loopVars == << options, i, racNames, j, specs, specsInner, infoSpecs, infoErr,
              results >>
retVars == << retSpecs, retErr >>
obsVars == << lastCall, calls, ran, optLog, extracted, lastItem, openedSince >>

Units == {"navigate", "waitReady", "uncheck", "enumerate",
          "select", "harvest", "extract", "reopen"}

NoCall == [unit |-> "none", pre |-> CtxNil, out |-> "ok", res |-> runWithTimeout(CtxNil, "ok", NoErr)]

\* all sequences over S of length at most n
RECURSIVE SeqsUpTo(_, _)
SeqsUpTo(S, n) ==
  IF n = 0 THEN {<<>>}
  ELSE SeqsUpTo(S, n - 1) \cup
       {Append(q, x) : q \in {q \in SeqsUpTo(S, n - 1) : Len(q) = n - 1}, x \in S}

Init ==
  /\ pc = "NewChrome"
  /\ ctxErr = CtxNil
  /\ tornDown = FALSE
  /\ exitCode = -1
  /\ liveCtx = {}
  /\ openedSince = FALSE
  /\ entries \in SeqsUpTo(EntryLis, MaxEntries)
  /\ patched \in BOOLEAN
  /\ nameDivs = <<>>
  /\ clicked = 0
  /\ options = <<>>
  /\ i = 0
  /\ racNames = <<>>
  /\ j = 0
  /\ specs = <<>>
  /\ specsInner = <<>>
  /\ infoSpecs = <<>>
  /\ infoErr = NoErr
  /\ results = <<>>
  /\ retSpecs = <<>>
  /\ retErr = NoErr
  /\ lastCall = NoCall
  /\ calls = [u \in Units |-> 0]
  /\ ran = [u \in Units |-> 0]
  /\ optLog = <<>>
  /\ extracted = <<>>
  /\ lastItem = [idx |-> 0, name |-> "", found |-> FALSE, evalErr |-> NoErr,
                 parseErr |-> NoErr, appended |-> FALSE, rows |-> <<>>]

\* a call that failed with the session alive before and after it: its own
\* deadline fired, or the browser reported an error
Recoverable(ctx, out) == ctx = CtxNil /\ out \in {"child_deadline", "browser_error"}

\* the child context of a runWithTimeout call, when the call left it live
LeftLive(r) == IF r.childLive THEN {"timeoutCtx"} ELSE {}

\* bookkeeping of one executor call
Observe(unit, out, r) ==
  /\ calls' = [calls EXCEPT ![unit] = @ + 1]
  /\ lastCall' = [unit |-> unit, pre |-> ctxErr, out |-> out, res |-> r]
  /\ ran' = [ran EXCEPT ![unit] = @ + IF r.ran THEN 1 ELSE 0]

(* ------------------------- browser and session ------------------------- *)
\* the combined cancel function of NewChrome: the session context is cancelled
cancelFunc(ctx) == IF ctx = CtxNil THEN Canceled ELSE ctx

\* browser.NewChrome: starts the browser under the session deadline; when
\* the start fails it tears everything down and returns a nil context
NewChrome(out) ==
  /\ pc = "NewChrome"
  /\ out \in RunOutcomes \ {"child_deadline"}
  /\ LET e == chromedpRun(CtxNil, out, NoErr) IN
     IF e # NoErr
     THEN /\ tornDown' = TRUE
          /\ ctxErr' = cancelFunc(CtxAfter(CtxNil, out))
          /\ pc' = "main_ctx_nil"
     ELSE /\ tornDown' = FALSE
          /\ ctxErr' = CtxNil
          /\ pc' = "main_ctx_ok"
  /\ UNCHANGED << exitCode, liveCtx, pageVars, loopVars, retVars, obsVars >>

\* main: ctx == nil, log.Fatal
mainNoBrowser ==
  /\ pc = "main_ctx_nil"
  /\ pc' = "exit"
  /\ exitCode' = 1
  /\ UNCHANGED << ctxErr, tornDown, liveCtx, pageVars, loopVars, retVars, obsVars >>

\* main: the cleanup is deferred, the scraper is created, GetOptions is called
mainStart ==
  /\ pc = "main_ctx_ok"
  /\ pc' = "GetOptions"
  /\ UNCHANGED << ctxErr, tornDown, exitCode, liveCtx, pageVars, loopVars, retVars,
                  obsVars >>

\* whether main leaves through log.Fatalf, which exits without running the
\* deferred calls
mainFatal(err) == err # NoErr

\* main: after GetOptions returned
mainResult ==
  /\ pc = "main_result"
  /\ pc' = "exit"
  /\ IF mainFatal(retErr)
     THEN /\ exitCode' = 1
          /\ UNCHANGED << ctxErr, tornDown >>
     ELSE /\ exitCode' = 0
          /\ tornDown' = TRUE
          /\ ctxErr' = cancelFunc(ctxErr)
  /\ UNCHANGED << liveCtx, pageVars, loopVars, retVars, obsVars >>

Running == pc \notin {"NewChrome", "main_ctx_nil", "exit"}

\* the session deadline (cfg.GlobalTimeout) fires between two calls
SessionDeadline ==
  /\ Running
  /\ ctxErr = CtxNil
  /\ ctxErr' = DeadlineExceeded
  /\ UNCHANGED << pc, tornDown, exitCode, liveCtx, pageVars, loopVars, retVars,
                  obsVars >>

\* the browser goes away between two calls: chromedp cancels the context
BrowserClosed ==
  /\ Running
  /\ ctxErr = CtxNil
  /\ ctxErr' = Canceled
  /\ UNCHANGED << pc, tornDown, exitCode, liveCtx, pageVars, loopVars, retVars,
                  obsVars >>

\* the page re-renders and drops its result list
PageClears ==
  /\ pc \in {"harvest", "extract"}
  /\ nameDivs # <<>>
  /\ nameDivs' = <<>>
  /\ UNCHANGED << pc, ctxErr, tornDown, exitCode, liveCtx, entries, patched,
                  clicked, loopVars, retVars, obsVars >>

(* ------------------------------ GetOptions ----------------------------- *)
\* a return that reports an empty result as an error
ReturnEmptyIsError(recs, err) ==
  /\ retSpecs' = recs
  /\ retErr' = IF recs = << >> /\ err = NoErr THEN Err("no options", CtxNil) ELSE err
  /\ pc' = "main_result"

\* GetOptions returns to main
Return(recs, err) ==
  /\ retSpecs' = recs
  /\ retErr' = err
  /\ pc' = "main_result"

\* GetOptions: the initial context check
GetOptionsEntry ==
  /\ pc = "GetOptions"
  /\ IF ctxErr # CtxNil
     THEN Return(<<>>, Err("initial context error", ctxErr))
     ELSE pc' = "navigate" /\ UNCHANGED retVars
  /\ UNCHANGED << ctxErr, tornDown, exitCode, liveCtx, pageVars, loopVars, obsVars >>

\* an error check that lets every error pass
FatalNever(err) == FALSE
\* an error check that returns only on context errors
FatalOnlyCtx(err) == err # NoErr /\ err.wraps # CtxNil

\* `if err != nil { return ... }` of setupPage and of GetOptions
Fatal(err) == err # NoErr

\* setupPage, step 1: navigate and settle, under a 30s deadline
Navigate(out) ==
  /\ pc = "navigate"
  /\ Feasible(ctxErr, out)
  /\ LET r == runDirect(ctxErr, out, "navigation failed") IN
     /\ Observe("navigate", out, r)
     /\ ctxErr' = r.ctx
     /\ IF Fatal(r.err)
        THEN Return(<<>>, r.err) /\ liveCtx' = {}
        ELSE /\ pc' = "waitReady"
             /\ liveCtx' = IF r.childLive THEN {"navCtx"} ELSE {}
             /\ UNCHANGED retVars
  /\ UNCHANGED << tornDown, exitCode, pageVars, loopVars, optLog, extracted,
                  lastItem, openedSince >>

\* setupPage, step 2: wait for body, under a 30s deadline
WaitReady(out) ==
  /\ pc = "waitReady"
  /\ Feasible(ctxErr, out)
  /\ LET r == runDirect(ctxErr, out, "page load verification failed") IN
     /\ Observe("waitReady", out, r)
     /\ ctxErr' = r.ctx
     /\ IF Fatal(r.err)
        THEN Return(<<>>, r.err) /\ liveCtx' = {}
        ELSE /\ pc' = "uncheck"
             /\ liveCtx' = liveCtx \cup (IF r.childLive THEN {"loadCtx"} ELSE {})
             /\ UNCHANGED retVars
  /\ UNCHANGED << tornDown, exitCode, pageVars, loopVars, optLog, extracted,
                  lastItem, openedSince >>

\* setupPage, step 3: uncheck the checkbox through the executor
Uncheck(out) ==
  /\ pc = "uncheck"
  /\ Feasible(ctxErr, out)
  /\ LET r == runWithTimeout(ctxErr, out, NoErr) IN
     /\ Observe("uncheck", out, r)
     /\ ctxErr' = r.ctx
     /\ liveCtx' = LeftLive(r)
     /\ IF Fatal(r.err) THEN Return(<<>>, Wrap("failed to uncheck checkbox", r.err))
        ELSE pc' = "enumerate" /\ UNCHANGED retVars
  /\ UNCHANGED << tornDown, exitCode, pageVars, loopVars, optLog, extracted,
                  lastItem, openedSince >>

\* an options script that filters before it trims
EnumerateScriptFilterFirst(lis) == MapTrim(FilterOptions(TextContents(lis)))

\* the options the enumeration script returns
EnumerateScript(lis) == FilterOptions(MapTrim(TextContents(lis)))

\* GetOptions: open the dropdown, collect the options, call processOptions
Enumerate(out) ==
  /\ pc = "enumerate"
  /\ Feasible(ctxErr, out)
  /\ LET r == runWithTimeout(ctxErr, out, NoErr) IN
     /\ Observe("enumerate", out, r)
     /\ ctxErr' = r.ctx
     /\ liveCtx' = liveCtx \cup LeftLive(r)
     /\ openedSince' = (r.ran \/ openedSince)
     /\ IF Fatal(r.err)
        THEN /\ Return(<<>>, Wrap("options error", r.err))
             /\ UNCHANGED << options, i >>
        ELSE /\ options' = EnumerateScript(entries)
             /\ IF EnumerateScript(entries) = <<>>
                THEN Return(<<>>, NoErr) /\ i' = i
                ELSE pc' = "select" /\ i' = 1 /\ UNCHANGED retVars
  /\ results' = <<>>
  /\ UNCHANGED << tornDown, exitCode, pageVars, racNames, j, specs, specsInner,
                  infoSpecs, infoErr, optLog, extracted, lastItem >>

(* ---------------------------- processOptions --------------------------- *)
\* a loop body that goes on after a failed call
SkipOptionNever(err) == FALSE

\* `if err != nil { log; continue }` after the select/search and harvest calls
SkipOption(err) == err # NoErr

\* the slice line 245 appends to results: `specs` there is the variable of
\* line 198; the `specs, err :=` of line 232 declares a new one in the if block
AppendedSpecs(outer, inner) == outer

\* a loop that takes the same option again
AdvanceRepeat(recs) == i' = i /\ pc' = "select" /\ UNCHANGED retVars

\* a loop that returns at the end of its first body
AdvanceAbort(recs) == i' = i /\ Return(recs, NoErr)

\* the end of one loop body (also by continue): next option, or return
Advance(recs) ==
  IF i < Len(options)
  THEN i' = i + 1 /\ pc' = "select" /\ UNCHANGED retVars
  ELSE i' = i /\ Return(recs, NoErr)

\* the text of the .rac_info .rac_name elements, trimmed
HarvestScript(divs) == MapTrim([k \in 1..Len(divs) |-> divs[k].text])

\* how far the actions of the select/search call got in the page: 0 nothing
\* was clicked, 1 the option was clicked, 2 the search was clicked too and
\* its results are shown. A call that returns no error did all of it; one
\* that was not handed to the browser, or whose option matches no entry, did
\* nothing; a call that failed on the way may have stopped anywhere.
SelectProgress(r, hit) ==
  IF r.err = NoErr THEN {2}
  ELSE IF ~r.ran \/ hit = 0 THEN {0}
  ELSE {0, 1, 2}

\* the same for the re-open call: whether .drop_arrow was clicked
ReopenProgress(r) ==
  IF r.err = NoErr THEN {TRUE}
  ELSE IF ~r.ran THEN {FALSE}
  ELSE BOOLEAN

\* step 1 of the loop body: click the option, click search
Select(out) ==
  /\ pc = "select"
  /\ Feasible(ctxErr, out)
  /\ (ctxErr = CtxNil /\ out = "ok") => FirstContaining(entries, options[i]) # 0
  /\ \E r \in {runWithTimeout(ctxErr, out, NoErr)} :
     \E hit \in {FirstContaining(entries, options[i])} :
     \E done \in SelectProgress(r, hit) :
     /\ Observe("select", out, r)
     /\ ctxErr' = r.ctx
     /\ liveCtx' = liveCtx \cup LeftLive(r)
     /\ openedSince' = (done = 0 /\ openedSince)
     /\ clicked' = IF done >= 1 THEN hit ELSE clicked
     /\ nameDivs' = IF done = 2 THEN ResultsOf[entries[hit]] ELSE nameDivs
     /\ specs' = <<>>
     /\ optLog' = Append(optLog, [opt |-> options[i],
                                   failed |-> IF r.err # NoErr THEN "select" ELSE "none",
                                   recoverable |-> Recoverable(ctxErr, out),
                                   extractor |-> FALSE, contributed |-> 0,
                                   opened |-> openedSince, ran |-> r.ran,
                                   names |-> 0, extractCalls |-> 0])
     /\ IF SkipOption(r.err)
        THEN Advance(results)
        ELSE pc' = "harvest" /\ UNCHANGED << i, retVars >>
  /\ UNCHANGED << tornDown, exitCode, entries, patched, options, racNames, j,
                  specsInner, infoSpecs, infoErr, results, extracted, lastItem >>

\* step 2 of the loop body: read the names; with none, append and go on to
\* the re-open
Harvest(out) ==
  /\ pc = "harvest"
  /\ Feasible(ctxErr, out)
  /\ LET r == runWithTimeout(ctxErr, out, NoErr)
         names == HarvestScript(nameDivs) IN
     /\ Observe("harvest", out, r)
     /\ ctxErr' = r.ctx
     /\ liveCtx' = liveCtx \cup LeftLive(r)
     /\ IF SkipOption(r.err)
        THEN /\ Advance(results)
             /\ optLog' = [optLog EXCEPT ![Len(optLog)].failed = "harvest",
                                         ![Len(optLog)].recoverable =
                                            Recoverable(ctxErr, out)]
             /\ UNCHANGED << racNames, j, infoSpecs, results >>
        ELSE /\ racNames' = names
             /\ UNCHANGED << i, retVars >>
             /\ IF Len(names) > 0
                THEN /\ pc' = "extract"
                     /\ j' = 1
                     /\ infoSpecs' = <<>>
                     /\ optLog' = [optLog EXCEPT ![Len(optLog)].extractor = TRUE,
                                                 ![Len(optLog)].names = Len(names)]
                     /\ UNCHANGED results
                ELSE /\ pc' = "reopen"
                     /\ results' = results \o specs
                     /\ UNCHANGED << j, infoSpecs, optLog >>
  /\ UNCHANGED << tornDown, exitCode, pageVars, options, specs, specsInner,
                  infoErr, extracted, lastItem, openedSince >>

(* ---------------------------- getRacquetInfo --------------------------- *)
\* the error chromedp.Evaluate(script, &stringifySpecs) ends with: the script
\* threw, or its value is not a JSON string
EvaluateErr(script) ==
  IF script.kind = "string" THEN NoErr
  ELSE IF script.kind = "exception" THEN Err("exception thrown", CtxNil)
  ELSE Err("json: cannot unmarshal object into Go value of type string", CtxNil)

\* a loop body that appends racquetInfo whatever happened
SkipIdentifierNever(err) == FALSE

\* `if err != nil { log; continue }` after the evaluation and after Unmarshal
SkipIdentifier(err) == err # NoErr

\* the error getRacquetInfo returns
getRacquetInfoErr == NoErr

\* one pass of the loop of getRacquetInfo; after the last name the function
\* returns to processOptions, which appends and goes on to the re-open.
\* page, script, r, stringifySpecs, parseErr and got are each bound to one
\* value.
ExtractOne(out) ==
  /\ pc = "extract"
  /\ Feasible(ctxErr, out)
  /\ \E page \in {ScriptValue(nameDivs, racNames[j], patched)} :
     \E script \in {page.value} :
     \E r \in {runWithTimeout(ctxErr, out, EvaluateErr(script))} :
     \E stringifySpecs \in {IF r.err = NoErr /\ script.kind = "string"
                            THEN script.json ELSE EmptyString} :
     \E parseErr \in {IF SkipIdentifier(r.err) THEN NoErr
                      ELSE UnmarshalErr(stringifySpecs)} :
     \E got \in {IF SkipIdentifier(r.err) \/ SkipIdentifier(parseErr)
                 THEN infoSpecs
                 ELSE Append(infoSpecs, Unmarshal(stringifySpecs))} :
     LET counted == [optLog EXCEPT ![Len(optLog)].extractCalls = @ + 1] IN
     /\ Observe("extract", out, r)
     /\ liveCtx' = liveCtx \cup LeftLive(r)
     /\ lastItem' = [idx |-> j, name |-> racNames[j],
                     found |-> page.found,
                     evalErr |-> r.err, parseErr |-> parseErr,
                     appended |-> Len(got) > Len(infoSpecs),
                     rows |-> page.rows]
     /\ ctxErr' = r.ctx
     /\ infoSpecs' = got
     /\ IF j < Len(racNames)
        THEN /\ j' = j + 1
             /\ optLog' = counted
             /\ UNCHANGED << pc, i, retVars, specsInner, infoErr, results, extracted >>
        ELSE /\ j' = j
             /\ specsInner' = got
             /\ infoErr' = getRacquetInfoErr
             /\ extracted' = extracted \o got
             /\ IF SkipOption(getRacquetInfoErr)
                THEN /\ Advance(results)
                     /\ optLog' = counted
                     /\ UNCHANGED results
                ELSE /\ pc' = "reopen"
                     /\ results' = results \o AppendedSpecs(specs, got)
                     /\ optLog' = [counted EXCEPT ![Len(optLog)].contributed =
                                                     Len(AppendedSpecs(specs, got))]
                     /\ UNCHANGED << i, retVars >>
  /\ UNCHANGED << tornDown, exitCode, pageVars, options, racNames, specs,
                  openedSince >>

\* step 4 of the loop body: re-open the dropdown; the loop goes on either way
Reopen(out) ==
  /\ pc = "reopen"
  /\ Feasible(ctxErr, out)
  /\ \E r \in {runWithTimeout(ctxErr, out, NoErr)} :
     \E done \in ReopenProgress(r) :
     /\ Observe("reopen", out, r)
     /\ ctxErr' = r.ctx
     /\ liveCtx' = liveCtx \cup LeftLive(r)
     /\ openedSince' = (done \/ openedSince)
     /\ Advance(results)
  /\ UNCHANGED << tornDown, exitCode, pageVars, options, racNames, j, specs,
                  specsInner, infoSpecs, infoErr, results, optLog, extracted,
                  lastItem >>

(* ---------------------------- specification ---------------------------- *)
Next ==
  \/ \E out \in RunOutcomes : NewChrome(out)
  \/ mainNoBrowser
  \/ mainStart
  \/ mainResult
  \/ SessionDeadline
  \/ BrowserClosed
  \/ PageClears
  \/ GetOptionsEntry
  \/ \E out \in RunOutcomes : Navigate(out)
  \/ \E out \in RunOutcomes : WaitReady(out)
  \/ \E out \in RunOutcomes : Uncheck(out)
  \/ \E out \in RunOutcomes : Enumerate(out)
  \/ \E out \in RunOutcomes : Select(out)
  \/ \E out \in RunOutcomes : Harvest(out)
  \/ \E out \in RunOutcomes : ExtractOne(out)
  \/ \E out \in RunOutcomes : Reopen(out)

Spec == Init /\ [][Next]_vars

\* the steps of the program itself: every call returns, at the latest when
\* its deadline fires, and the program then takes its next step
Step ==
  \/ \E out \in RunOutcomes : NewChrome(out)
  \/ mainNoBrowser
  \/ mainStart
  \/ mainResult
  \/ GetOptionsEntry
  \/ \E out \in RunOutcomes : Navigate(out)
  \/ \E out \in RunOutcomes : WaitReady(out)
  \/ \E out \in RunOutcomes : Uncheck(out)
  \/ \E out \in RunOutcomes : Enumerate(out)
  \/ \E out \in RunOutcomes : Select(out)
  \/ \E out \in RunOutcomes : Harvest(out)
  \/ \E out \in RunOutcomes : ExtractOne(out)
  \/ \E out \in RunOutcomes : Reopen(out)

FairSpec == Init /\ [][Next]_vars /\ WF_vars(Step)

(* ------------------------------- claims -------------------------------- *)
\* GetOptions has returned to main: main holds its result (line 385), or has
\* exited after it (a fatal error, or the normal end); the exit taken when no
\* browser came up (exit code 1 with no error of GetOptions) is not one
Returned == pc = "main_result" \/ (pc = "exit" /\ (exitCode = 0 \/ retErr # NoErr))

\* the units of work that go through runWithTimeout
ExecutorUnits == {"uncheck", "enumerate", "select", "harvest", "extract", "reopen"}

\* the outcome of the specification's taxonomy an executor error stands for
Outcome(err) ==
  IF err = NoErr THEN "Ok"
  ELSE IF err.msg \in {"parent context canceled", "action context canceled during execution"}
       THEN "SessionCancelled"
  ELSE IF err.msg = "action timed out" THEN "ActionTimedOut"
  ELSE "ActionFailed"

\* C1: when setup and enumeration succeeded, the records GetOptions returns are
\* the concatenation, in option order, of the records getRacquetInfo returned.
C1_Concatenation ==
  (Returned /\ retErr = NoErr) => retSpecs = extracted

\* an option's failure was a recoverable one: the session was alive, and the
\* call timed out on its own deadline or the browser reported an error
RecoverableFailure(e) == e.failed # "none" /\ e.recoverable

\* C2: an option whose select/search or harvest step fails recoverably
\* contributes no record, getRacquetInfo is not called for it, the loop stays
\* alive, every option is visited by the time the run returns, and the run
\* returns no error.
C2_FailureIsolation ==
  \A k \in 1..Len(optLog) :
    RecoverableFailure(optLog[k]) =>
      /\ optLog[k].contributed = 0
      /\ ~optLog[k].extractor
      /\ pc \in {"select", "harvest", "extract", "reopen", "main_result", "exit"}
      /\ Returned => (retErr = NoErr /\ Len(optLog) = Len(options))

C2_Witness ==
  /\ pc = "exit"
  /\ Len(optLog) = 2
  /\ optLog[1].failed = "select" /\ optLog[1].recoverable
  /\ optLog[2].failed = "none" /\ optLog[2].extractor

\* C3: an identifier without a matching .rac_name element, whose evaluation
\* ran to its end, yields a record with its name, a non-empty Error and all
\* other fields empty, and that record is in the extractor's output.
C3_NotFoundRecord ==
  (lastCall.unit = "extract" /\ lastCall.pre = CtxNil /\ lastCall.out = "ok"
     /\ ~lastItem.found) =>
    /\ lastItem.appended
    /\ infoSpecs[Len(infoSpecs)].Name = lastItem.name
    /\ infoSpecs[Len(infoSpecs)].Error # ""
    /\ \A f \in DOMAIN EmptySpecs \ {"Name", "Error"} : infoSpecs[Len(infoSpecs)][f] = ""

\* C4: an identifier whose evaluation fails or whose payload does not parse
\* adds no record, the loop goes on with the next identifier, and
\* getRacquetInfo returns a nil error.
C4_SkipOnFailure ==
  /\ infoErr = NoErr
  /\ (lastItem.idx > 0 /\ (lastItem.evalErr # NoErr \/ lastItem.parseErr # NoErr)) =>
       /\ ~lastItem.appended
       /\ (lastCall.unit = "extract" /\ lastItem.idx < Len(racNames)) =>
            (pc = "extract" /\ j = lastItem.idx + 1)
       /\ (lastCall.unit = "extract" /\ lastItem.idx = Len(racNames)) =>
            (pc \in {"reopen"} /\ specsInner = infoSpecs)

C4_Witness ==
  /\ pc = "extract" /\ j = 2
  /\ lastCall.unit = "extract"
  /\ lastItem.idx = 1
  /\ lastItem.evalErr = NoErr /\ lastItem.parseErr # NoErr
  /\ infoSpecs = <<>>

\* C5: every failure of an executor call is SessionCancelled whenever the
\* session's deadline or cancellation fired (also during the call), is
\* ActionTimedOut only when the call's own deadline fired with the session
\* alive, and is otherwise the browser's error passed through.
C5_Classification ==
  (lastCall.unit \in ExecutorUnits /\ lastCall.res.err # NoErr) =>
    /\ (lastCall.res.ctx # CtxNil) => Outcome(lastCall.res.err) = "SessionCancelled"
    /\ Outcome(lastCall.res.err) = "ActionTimedOut" =>
         (lastCall.out = "child_deadline" /\ lastCall.res.ctx = CtxNil)
    /\ (lastCall.res.ctx = CtxNil /\ lastCall.out # "child_deadline") =>
         Outcome(lastCall.res.err) = "ActionFailed"

\* C6: a run during which the session expired or was cancelled returns an
\* error to main.
C6_SessionCancelledFatal ==
  (Returned /\ lastCall.unit # "none" /\ lastCall.res.ctx # CtxNil) => retErr # NoErr

\* C7: an executor call made with the session already cancelled or expired
\* returns "parent context canceled" wrapping the session's error, derives no
\* child deadline and hands no action to the browser.
C7_FailFast ==
  (lastCall.unit \in ExecutorUnits /\ lastCall.pre # CtxNil) =>
    /\ lastCall.res.err = Err("parent context canceled", lastCall.pre)
    /\ ~lastCall.res.derived
    /\ ~lastCall.res.ran
    /\ ran[lastCall.unit] < calls[lastCall.unit]

C7_Witness ==
  /\ lastCall.unit = "select"
  /\ lastCall.pre = DeadlineExceeded
  /\ lastCall.out = "ok"
  /\ calls["select"] = 2 /\ ran["select"] = 1

\* the units after a setup step, and the message of the step's error
UnitsAfter(unit) ==
  CASE unit = "navigate" -> Units \ {"navigate"}
    [] unit = "waitReady" -> Units \ {"navigate", "waitReady"}
    [] unit = "uncheck" -> Units \ {"navigate", "waitReady", "uncheck"}
    [] OTHER -> {}
SetupMsg(unit) ==
  CASE unit = "navigate" -> "navigation failed"
    [] unit = "waitReady" -> "page load verification failed"
    [] OTHER -> "failed to uncheck checkbox"

\* C8: when a setup step fails, GetOptions returns that step's error and no
\* record, and no later setup step, dropdown click, selection, search, harvest
\* or extraction is issued.
C8_SetupFatal ==
  (lastCall.unit \in {"navigate", "waitReady", "uncheck"} /\ lastCall.res.err # NoErr) =>
    /\ Returned
    /\ retErr.msg = SetupMsg(lastCall.unit)
    /\ retSpecs = <<>>
    /\ \A u \in UnitsAfter(lastCall.unit) : calls[u] = 0
    /\ optLog = <<>> /\ extracted = <<>>

C8_Witness ==
  /\ pc = "exit"
  /\ lastCall.unit = "waitReady"
  /\ lastCall.out = "browser_error"
  /\ calls["navigate"] = 1

\* C9: when the enumeration fails, GetOptions returns "options error" and no
\* record, no option is processed, and each setup step has run exactly once.
C9_EnumerationFatal ==
  (lastCall.unit = "enumerate" /\ lastCall.res.err # NoErr) =>
    /\ Returned
    /\ retErr.msg = "options error"
    /\ retSpecs = <<>>
    /\ optLog = <<>>
    /\ \A u \in {"select", "harvest", "extract", "reopen"} : calls[u] = 0
    /\ \A u \in {"navigate", "waitReady", "uncheck", "enumerate"} : calls[u] = 1

C9_Witness ==
  /\ pc = "exit"
  /\ lastCall.unit = "enumerate"
  /\ lastCall.out = "child_deadline"
  /\ lastCall.pre = CtxNil
  /\ entries # <<>>

\* C10: whenever the process has exited, the combined cancel function of
\* NewChrome has run.
C10_TeardownOnExit ==
  pc = "exit" => tornDown

\* C11: once the option loop has started, processOptions eventually returns,
\* with every option of the list visited and with a nil error, whatever
\* failed on the way, given that every browser call returns.
C11_Termination ==
  (pc = "select") ~> (Returned /\ retErr = NoErr /\ Len(optLog) = Len(options))

C11_Witness ==
  /\ pc = "exit"
  /\ exitCode = 0
  /\ Len(options) = 2
  /\ Len(optLog) = 2
  /\ \A k \in 1..2 : RecoverableFailure(optLog[k])
  /\ retErr = NoErr


\* C12: the record produced for an identifier with a DOM match has all
\* fourteen fields, Name equal to the identifier and Error empty, and each
\* labelled field is the trimmed value cell of the first row of the matched
\* panel whose trimmed text begins with the label, or "" when no row does.
C12_FieldShape ==
  (lastCall.unit = "extract" /\ lastItem.found /\ lastItem.appended) =>
    LET rec == infoSpecs[Len(infoSpecs)]
        rows == lastItem.rows
        Begins(label) == {k \in 1..Len(rows) : StartsWith(Trim(rows[k].text), label)}
    IN /\ DOMAIN rec = {GoFields[n] : n \in 1..Len(GoFields)}
       /\ Len(GoFields) = 14
       /\ rec.Name = lastItem.name
       /\ rec.Error = ""
       /\ \A n \in 3..Len(GoFields) :
            LET begins == Begins(LabelOf(JsKeys[n])) IN
            IF begins = {}
            THEN rec[GoFields[n]] = ""
            ELSE rec[GoFields[n]] =
                   Trim(rows[CHOOSE k \in begins : \A m \in begins : k <= m].td)

\* C13: when the enumeration succeeds with no option, no select, search,
\* harvest, extract or re-open call is made, and GetOptions returns an empty
\* record sequence with a nil error.
C13_EmptyOptionList ==
  (lastCall.unit = "enumerate" /\ lastCall.res.err = NoErr /\ options = << >>) =>
    /\ Returned
    /\ retErr = NoErr
    /\ retSpecs = << >>
    /\ optLog = << >>
    /\ \A u \in {"select", "harvest", "extract", "reopen"} : calls[u] = 0

C13_Witness ==
  /\ pc = "exit"
  /\ exitCode = 0
  /\ lastCall.unit = "enumerate" /\ lastCall.res.err = NoErr
  /\ TextContents(entries) = << "Select", "\n\t " >>
  /\ options = << >>
  /\ retErr = NoErr


\* C14: after a successful enumeration the option list is the sequence, in
\* DOM order and with duplicates kept, of the trimmed texts of the dropdown
\* entries that are neither empty nor "Select"; no option is "" or "Select".
C14_OptionFilter ==
  (calls["enumerate"] = 1 /\ ~(lastCall.unit = "enumerate" /\ lastCall.res.err # NoErr)) =>
    LET kept == {k \in 1..Len(entries) :
                   Trim(TextContent(entries[k])) \notin {"", "Select"}}
        Nth(n) == CHOOSE k \in kept : Cardinality({m \in kept : m <= k}) = n
    IN /\ Len(options) = Cardinality(kept)
       /\ \A n \in 1..Len(options) :
            options[n] = Trim(TextContent(entries[Nth(n)]))
       /\ \A n \in 1..Len(options) : options[n] \notin {"", "Select"}

C14_Witness ==
  /\ pc = "select"
  /\ TextContents(entries) = << "\n\t ", " A " >>
  /\ options = << "A" >>


\* C15: the child deadline a runWithTimeout call derives is revoked when the
\* call returns, whether it succeeded or failed; between two calls no child
\* deadline of a finished runWithTimeout call is live.
C15_ChildDeadlineRevoked ==
  /\ "timeoutCtx" \notin liveCtx
  /\ (lastCall.unit \in ExecutorUnits /\ lastCall.res.derived) => ~lastCall.res.childLive

C15_Witness ==
  /\ lastCall.unit = "select"
  /\ lastCall.out = "child_deadline"
  /\ lastCall.res.derived
  /\ lastCall.res.err # NoErr
  /\ calls["reopen"] = 1
  /\ liveCtx = {}


\* C16: no unit of work is retried. Each setup step and the enumeration are
\* called at most once; the k-th visit of the loop is for the k-th option and
\* makes one select call, at most one harvest and at most one re-open call;
\* each identifier of a harvested list is extracted at most once; a run that
\* returns from the loop has visited every position once.
C16_NoRetry ==
  /\ \A u \in {"navigate", "waitReady", "uncheck", "enumerate"} : calls[u] <= 1
  /\ Len(optLog) <= Len(options)
  /\ calls["select"] = Len(optLog)
  /\ \A k \in 1..Len(optLog) : optLog[k].opt = options[k]
  /\ calls["harvest"] <= calls["select"]
  /\ calls["reopen"] <= calls["harvest"]
  /\ \A k \in 1..Len(optLog) :
       /\ optLog[k].extractCalls <= optLog[k].names
       /\ (k < Len(optLog) \/ pc # "extract") => optLog[k].extractCalls = optLog[k].names
  /\ pc = "extract" => optLog[Len(optLog)].extractCalls = j - 1
  /\ (Returned /\ calls["select"] > 0) => Len(optLog) = Len(options)

C16_Witness ==
  /\ pc = "exit"
  /\ Len(options) = 2
  /\ optLog[1].failed = "harvest" /\ optLog[1].recoverable
  /\ optLog[2].failed = "none" /\ optLog[2].names = 2 /\ optLog[2].extractCalls = 2
  /\ calls["select"] = 2 /\ calls["harvest"] = 2 /\ calls["reopen"] = 1


\* C17: every option click handed to the browser follows a click on the
\* dropdown arrow issued after the previous option click: the enumeration's
\* for the first option, the previous iteration's re-open for a later one.
C17_SelectFromOpenDropdown ==
  \A k \in 1..Len(optLog) : optLog[k].ran => optLog[k].opened

\* C18: the entry clicked for an option is an entry whose trimmed text is
\* that option.
C18_ClickedEqualsOption ==
  pc = "harvest" => Trim(TextContent(entries[clicked])) = options[i]



\* C19: once the session context is expired or cancelled while the options are
\* processed, every further executor call returns "parent context canceled"
\* without deriving a deadline or handing an action to the browser, the
\* session stays over, the records gathered so far (by getRacquetInfo for the
\* current option, and by processOptions) stay as they are and are what the
\* run returns, and every remaining option is still visited, fails at its
\* first step and contributes nothing.
C19_NoActionAfterExpiry ==
  /\ [](/\ (Returned /\ calls["select"] > 0) => Len(optLog) = Len(options)
        /\ \A k \in 1..Len(optLog) :
             ~optLog[k].ran => /\ optLog[k].failed = "select"
                               /\ ~optLog[k].extractor
                               /\ optLog[k].contributed = 0)
  /\ [][(ctxErr # CtxNil /\ pc \in {"select", "harvest", "extract", "reopen"}) =>
          /\ ctxErr' = ctxErr
          /\ ran' = ran
          /\ liveCtx' = liveCtx
          /\ infoSpecs' = infoSpecs
          /\ results' = results
          /\ pc' = "main_result" => (retSpecs' = results /\ Len(optLog') = Len(options))
          /\ calls' # calls =>
               /\ lastCall'.res.err = Err("parent context canceled", ctxErr)
               /\ ~lastCall'.res.derived
               /\ ~lastCall'.res.ran
          /\ Len(optLog') > Len(optLog) => ~optLog'[Len(optLog')].ran]_vars

C19_Witness ==
  /\ pc = "exit"
  /\ Len(options) = 2 /\ Len(optLog) = 2
  /\ optLog[1].ran /\ optLog[1].names = 2 /\ optLog[1].extractCalls = 2
  /\ calls["extract"] = 2 /\ ran["extract"] = 1
  /\ Len(extracted) = 1
  /\ calls["reopen"] = 1 /\ ran["reopen"] = 0
  /\ ~optLog[2].ran /\ optLog[2].failed = "select"
  /\ lastCall.unit = "select" /\ lastCall.pre = Canceled


\* the Name fields of a record sequence, in order
RecordNames(recs) == [k \in 1..Len(recs) |-> recs[k].Name]

\* a is b with some positions left out, the order kept
RECURSIVE IsSubseq(_, _)
IsSubseq(a, b) ==
  IF a = << >> THEN TRUE
  ELSE IF b = << >> THEN FALSE
  ELSE IF Head(a) = Head(b) /\ IsSubseq(Tail(a), Tail(b)) THEN TRUE
  ELSE IsSubseq(a, Tail(b))

\* C20: while getRacquetInfo works through an identifier list, and when it has
\* returned, its record sequence is no longer than the identifiers worked on,
\* and the Names of the records are those identifiers with some positions
\* left out, in the same order.
C20_RecordsFollowIdentifiers ==
  /\ pc = "extract" =>
       /\ Len(infoSpecs) <= j - 1
       /\ IsSubseq(RecordNames(infoSpecs), SubSeq(racNames, 1, j - 1))
  /\ (pc = "reopen" /\ lastCall.unit = "extract") =>
       /\ specsInner = infoSpecs
       /\ Len(specsInner) <= Len(racNames)
       /\ IsSubseq(RecordNames(specsInner), racNames)
       /\ lastItem.appended =>
            specsInner[Len(specsInner)].Name = racNames[Len(racNames)]

====
